---- MODULE Spec2Model ----
(***************************************************************************)
(* Verification model of estools: rolling maintenance of an elasticsearch  *)
(* cluster.  The module holds one state machine per part of the program:   *)
(*   SpecSelect  - ElasticsearchCluster.next_nodes driven by the loop of   *)
(*                 execute_on_cluster                                      *)
(*   SpecWait    - utils.wait_for                                          *)
(*   SpecRepair  - force_allocation_of_all_replicas                        *)
(*   SpecRouting - _stop_replication / _start_replication                  *)
(*   SpecReboot  - upgrade.reboot_nodes                                    *)
(*   SpecRun     - execute_on_cluster with reboot_nodes as its task        *)
(*   SpecGreen   - ElasticsearchCluster.wait_for_green                     *)
(*   SpecFlush   - ElasticsearchCluster.flush_markers                      *)
(*   SpecExecute - Nodes.execute                                           *)
(*   SpecWaitInTime - utils.wait_for under a clock that advances           *)
(*   SpecQueue   - ElasticsearchCluster.write_queue_status                 *)
(*   SpecUpgrade - upgrade.upgrade_nodes on one batch                      *)
(* Each specification moves its own variables and leaves the others idle.  *)
(***************************************************************************)
EXTENDS Naturals, Sequences, FiniteSets

VARIABLES
    \* ---- execute_on_cluster / next_nodes
    inventory,      \* elasticsearch.nodes.info()['nodes'] in enumeration order
    cutoff,         \* restart_start_time (start_time), in milliseconds
    parallelism,    \* n, the batch size
    selPc,          \* position in the loop of execute_on_cluster
    nodes,          \* the value next_nodes returned last
    calls,          \* number of calls of next_nodes so far
    returned,       \* per host: how many batches held it so far
    todo,           \* the hosts that next_nodes classifies not-done at the start
    \* ---- wait_for
    wfPc,           \* position in wait_for
    clock,          \* time.time()
    wf_start_time,  \* start_time of wait_for
    timeout,        \* timeout.total_seconds()
    retry_period,   \* retry_period.total_seconds()
    ignored_exceptions,
    outcomes,       \* what each evaluation of the condition gave, in order
    sleeps,         \* number of time.sleep calls
    wfError,        \* the error wait_for raised
    \* ---- force_allocation_of_all_replicas
    shards,         \* the state of each shard copy listed by cat.shards
    repPc,          \* position in force_allocation_of_all_replicas
    max,            \* max: the number of unassigned shards at entry
    i,              \* i: the loop counter
    unassigned,     \* unassigned: the list fetched in the loop
    shard,          \* the shard given to force_allocation_of_shard
    es_nodes,       \* es_nodes, shuffled
    node_ix,        \* position of the for loop in es_nodes
    iterations,     \* number of times the body of the while loop was entered
    fasCalls,       \* number of calls of force_allocation_of_shard
    reroutes,       \* nodes named by the reroute commands of the current call
    assignedAtVerify, \* whether the shard was assigned when it was re-verified
    \* ---- the cluster's routing setting: _stop_replication / _start_replication
    dry_run,        \* self.dry_run
    allocation,     \* cluster.routing.allocation.enable on the cluster
    routing,        \* the routing requests made so far and the action taken on each
    rtResult,       \* how the last call of _stop/_start_replication ended
    \* ---- reboot_nodes
    rbPc,           \* the step reboot_nodes is about to execute
    wait_for_relocations,
    writes_frozen,  \* whether the cluster's writes are frozen
    pooled,         \* whether the nodes of the batch are pooled
    trace,          \* the steps executed so far, in order
    gave,           \* what the call under each step of trace gave: an exit
                    \* code, an answer, or the class of the error it raised
    pending,        \* the error being unwound
    rbError,        \* the error that reached the caller of reboot_nodes
    first_error,    \* the first error raised in the run
    \* ---- wait_for_green
    max_delayed_jobs, \* max_delayed_jobs: <<>> for None, <<t>> for the threshold t
    samples,        \* per poll: the status of the write queue, whether green()
                    \* sampled it and whether it called the health check
    queue_status,   \* e.queue_status of the MaxWriteQueueExceeded raised
    \* ---- flush_markers
    flPc,           \* position in flush_markers
    flushes,        \* the flush requests issued so far, with their answers
    flResult,       \* how each call of flush_markers ended, in order
    \* ---- Nodes.execute
    sudo,           \* self.sudo
    workers,        \* the transport workers created so far, with their commands
    exResult,       \* the calls of execute so far, with what each returned or raised
    \* ---- write_queue_status
    message,        \* the job report printed by showJobs.php, line by line
    wqPc,           \* position in write_queue_status
    wqResult,       \* the value write_queue_status returned
    \* ---- upgrade_nodes (with the variables of the batch task above)
    puppet_enabled  \* whether puppet is enabled on the nodes of the batch

selVars == <<inventory, cutoff, parallelism, selPc, nodes, calls, returned, todo>>

wfVars == <<wfPc, clock, wf_start_time, timeout, retry_period, ignored_exceptions,
            outcomes, sleeps, wfError>>

repVars == <<shards, repPc, max, i, unassigned, shard, es_nodes, node_ix,
             iterations, fasCalls, reroutes, assignedAtVerify>>

rtVars == <<dry_run, allocation, routing, rtResult>>

rbVars == <<rbPc, wait_for_relocations, writes_frozen, pooled, trace, gave,
            pending, rbError, first_error>>

grVars == <<max_delayed_jobs, samples, queue_status>>

flVars == <<flPc, flushes, flResult>>

exVars == <<sudo, workers, exResult>>

wqVars == <<message, wqPc, wqResult>>

upVars == <<puppet_enabled>>

opVars == <<grVars, flVars, exVars, wqVars, upVars>>

vars == <<selVars, wfVars, repVars, rtVars, rbVars, opVars>>

\* what the actions of one part of the program leave unchanged
otherThanSelect == <<wfVars, repVars, rtVars, rbVars, opVars>>
otherThanWait == <<selVars, repVars, rtVars, rbVars, opVars>>
otherThanRepair == <<selVars, wfVars, rtVars, rbVars, opVars>>
otherThanRouting == <<selVars, wfVars, repVars, rbVars, opVars>>
otherThanReboot == <<selVars, wfVars, repVars, opVars>>
otherThanGreen == <<selVars, repVars, rtVars, rbVars, flVars, exVars, wqVars, upVars>>
otherThanFlush == <<selVars, wfVars, repVars, rbVars, grVars, exVars, wqVars, upVars>>
otherThanExecute == <<selVars, wfVars, repVars, rbVars, grVars, flVars, wqVars, upVars>>
otherThanQueue == <<selVars, wfVars, repVars, rtVars, rbVars, grVars, flVars, exVars, upVars>>
otherThanUpgrade == <<selVars, wfVars, repVars, grVars, flVars, exVars, wqVars>>

(***************************************************************************)
(* Bounds of the model.                                                    *)
(***************************************************************************)
MaxNodes == 3
MaxBatch == 2

\* calls of next_nodes explored: one per node, the closing call and one more
MaxCalls(ns) == Len(ns) + 2

\* wait_for: timeouts, retry periods and evaluations of the condition explored
MaxTimeout == 2
MaxRetry == 1
MaxEvals == 3

\* shard repair: shard copies listed by the cluster and live node names
MaxShards == 3
MaxEsNodes == 2

\* wait_for_green: thresholds given as max_delayed_jobs and delayed counts of
\* the write queue
MaxThreshold == 2
MaxDelayed == 3

\* calls of flush_markers explored
MaxFlushCalls == 2

\* calls of Nodes.execute explored
MaxExecCalls == 2

\* lines of the job report read by write_queue_status
MaxLines == 2

\* direct calls of _stop_replication / _start_replication explored
MaxRoutingCalls == 3

\* nodes of the inventory in a whole run of execute_on_cluster
MaxRunNodes == 2

(***************************************************************************)
(* Values.                                                                 *)
(***************************************************************************)
RowNames == {"A", "B"}

\* a node's attributes: with the 'row' attribute, or without it
Attributes == [{"row"} -> RowNames] \cup {<<>>}

\* process start times and cutoffs, in milliseconds: whole seconds and
\* instants that fall inside a second
StartTimes == {1000, 1500, 2000}
Cutoffs == {1000, 1500}

NodeInfo == [attributes : Attributes, start_time_in_millis : StartTimes]

NoNodes == [kind |-> "none", hosts |-> <<>>]

Range(s) == {s[p] : p \in DOMAIN s}

Permutations(S) ==
    {s \in [1..Cardinality(S) -> S] : \A p, q \in DOMAIN s : s[p] = s[q] => p = q}

(***************************************************************************)
(* The variables of a part of the program that a specification leaves      *)
(* alone.                                                                  *)
(***************************************************************************)
NoSelect ==
    /\ inventory = <<>> /\ cutoff = 0 /\ parallelism = 1 /\ selPc = "idle"
    /\ nodes = NoNodes /\ calls = 0 /\ returned = <<>> /\ todo = {}

NoWait ==
    /\ wfPc = "idle" /\ clock = 0 /\ wf_start_time = 0 /\ timeout = 0
    /\ retry_period = 0 /\ ignored_exceptions = {} /\ outcomes = <<>>
    /\ sleeps = 0 /\ wfError = "none"

NoRepair ==
    /\ shards = <<>> /\ repPc = "idle" /\ max = 0 /\ i = 0 /\ unassigned = <<>>
    /\ shard = 0 /\ es_nodes = <<>> /\ node_ix = 0 /\ iterations = 0
    /\ fasCalls = 0 /\ reroutes = <<>> /\ assignedAtVerify = FALSE

NoError == [kind |-> "none", at |-> "none"]

NoRouting ==
    /\ dry_run = FALSE /\ allocation = "all" /\ routing = <<>> /\ rtResult = "none"

NoReboot ==
    /\ rbPc = "idle" /\ wait_for_relocations = FALSE /\ writes_frozen = FALSE
    /\ pooled = TRUE /\ trace = <<>> /\ gave = <<>> /\ pending = NoError
    /\ rbError = NoError /\ first_error = NoError

NoGreen == max_delayed_jobs = <<>> /\ samples = <<>> /\ queue_status = <<>>

NoFlush == flPc = "idle" /\ flushes = <<>> /\ flResult = <<>>

NoExecute == sudo = FALSE /\ workers = <<>> /\ exResult = <<>>

NoQueue == message = <<>> /\ wqPc = "idle" /\ wqResult = <<>>

NoUpgrade == puppet_enabled = TRUE

NoOps == NoGreen /\ NoFlush /\ NoExecute /\ NoQueue /\ NoUpgrade

(***************************************************************************)
(* ElasticsearchCluster._has_been_restarted_after                          *)
(*   jvm_start = utcfromtimestamp(int(start_time_in_millis / 1000))        *)
(*   return jvm_start > start_time                                         *)
(* jvm_start is a whole number of seconds; it is compared here in          *)
(* milliseconds with the cutoff.                                           *)
(***************************************************************************)
_has_been_restarted_after_exact(node, start_time) ==
    node.start_time_in_millis > start_time

_has_been_restarted_after(node, start_time) ==
    (node.start_time_in_millis \div 1000) * 1000 > start_time

(***************************************************************************)
(* ElasticsearchCluster._ensure_row_initialized                            *)
(***************************************************************************)
_ensure_row_initialized(row, rows) ==
    IF row \in DOMAIN rows
    THEN rows
    ELSE [r \in DOMAIN rows \cup {row} |->
            IF r \in DOMAIN rows THEN rows[r]
            ELSE [done |-> <<>>, not_done |-> <<>>]]

(***************************************************************************)
(* ElasticsearchCluster._to_rows: the rows after the first k nodes of the  *)
(* enumeration.  A node is held in a row's lists by its position in the    *)
(* inventory, which stands for its name.                                   *)
(***************************************************************************)
RECURSIVE _to_rows_upto(_, _, _)
_to_rows_upto(ns, start_time, k) ==
    IF k = 0 THEN <<>>
    ELSE LET row == ns[k].attributes.row
             rows == _ensure_row_initialized(row, _to_rows_upto(ns, start_time, k - 1))
         IN  IF _has_been_restarted_after(ns[k], start_time)
             THEN [rows EXCEPT ![row].done = Append(@, k)]
             ELSE [rows EXCEPT ![row].not_done = Append(@, k)]

_to_rows(ns, start_time) == _to_rows_upto(ns, start_time, Len(ns))

\* node['attributes']['row'] raises KeyError for a node without the attribute
_to_rows_raises(ns) == \E k \in DOMAIN ns : "row" \notin DOMAIN ns[k].attributes

(***************************************************************************)
(* sorted(rows.items(), key=lambda row: len(row[1]['done'])): a stable     *)
(* sort of the items, given in the order `items` the dict enumerates them. *)
(***************************************************************************)
RECURSIVE InsertByDone(_, _, _)
InsertByDone(row_name, s, rows) ==
    \* row_name goes after every row with at most as many done nodes
    IF s = <<>> THEN <<row_name>>
    ELSE IF Len(rows[row_name].done) < Len(rows[Head(s)].done)
         THEN <<row_name>> \o s
         ELSE <<Head(s)>> \o InsertByDone(row_name, Tail(s), rows)

RECURSIVE SortedUpto(_, _, _)
SortedUpto(items, rows, k) ==
    IF k = 0 THEN <<>>
    ELSE InsertByDone(items[k], SortedUpto(items, rows, k - 1), rows)

unsorted_rows(items, rows) == items

sorted_rows(items, rows) == SortedUpto(items, rows, Len(items))

(***************************************************************************)
(* The loop of next_nodes over the sorted rows: the first row with a       *)
(* not-done node gives row['not_done'][:n]; no such row gives None.        *)
(***************************************************************************)
RECURSIVE first_batch(_, _, _)
first_batch(s, rows, n) ==
    IF s = <<>> THEN NoNodes
    ELSE IF Len(rows[Head(s)].not_done) > 0
         THEN [kind |-> "batch",
               hosts |-> SubSeq(rows[Head(s)].not_done, 1,
                                IF n < Len(rows[Head(s)].not_done)
                                THEN n ELSE Len(rows[Head(s)].not_done))]
         ELSE first_batch(Tail(s), rows, n)

\* execute_on_cluster has no handler around the call of next_nodes: where the
\* loop is after next_nodes raised
after_KeyError_break == "done"

after_KeyError == "raised"

(***************************************************************************)
(* ElasticsearchCluster.next_nodes, called by execute_on_cluster.          *)
(***************************************************************************)
next_nodes ==
    /\ selPc = "next_nodes"
    /\ calls < MaxCalls(inventory)
    /\ calls' = calls + 1
    /\ IF _to_rows_raises(inventory)
       THEN /\ selPc' = after_KeyError
            /\ nodes' = [kind |-> "KeyError", hosts |-> <<>>]
            /\ UNCHANGED returned
       ELSE LET rows == _to_rows(inventory, cutoff)
            IN  \E items \in Permutations(DOMAIN rows) :
                  LET got == first_batch(sorted_rows(items, rows), rows, parallelism)
                  IN  /\ nodes' = got
                      \* execute_on_cluster: if not nodes: break
                      /\ selPc' = IF got.kind = "none" THEN "done" ELSE "task"
                      /\ returned' = [h \in DOMAIN returned |->
                                        IF h \in Range(got.hosts)
                                        THEN returned[h] + 1 ELSE returned[h]]
    /\ UNCHANGED <<inventory, cutoff, parallelism, todo>>
    /\ UNCHANGED otherThanSelect

(***************************************************************************)
(* The task of execute_on_cluster on the batch: every host of the batch    *)
(* is restarted, so its start time moves past the cutoff, and no other     *)
(* node changes; or the task raises and the error leaves the loop.         *)
(***************************************************************************)
task_done ==
    /\ selPc = "task"
    /\ \E started \in [Range(nodes.hosts) -> {t \in StartTimes : t > cutoff}] :
          inventory' = [k \in DOMAIN inventory |->
                          IF k \in Range(nodes.hosts)
                          THEN [inventory[k] EXCEPT !.start_time_in_millis = started[k]]
                          ELSE inventory[k]]
    /\ selPc' = "next_nodes"
    /\ UNCHANGED <<cutoff, parallelism, nodes, calls, returned, todo>>
    /\ UNCHANGED otherThanSelect

task_raises ==
    /\ selPc = "task"
    /\ selPc' = "raised"
    /\ UNCHANGED <<inventory, cutoff, parallelism, nodes, calls, returned, todo>>
    /\ UNCHANGED otherThanSelect

InitSelect ==
    /\ NoWait /\ NoRepair /\ NoRouting /\ NoReboot /\ NoOps
    /\ \E k \in 0..MaxNodes : inventory \in [1..k -> NodeInfo]
    /\ cutoff \in Cutoffs
    /\ parallelism \in 1..MaxBatch
    /\ selPc = "next_nodes"
    /\ nodes = NoNodes
    /\ calls = 0
    /\ returned = [h \in DOMAIN inventory |-> 0]
    /\ todo = {h \in DOMAIN inventory :
                  ~_has_been_restarted_after(inventory[h], cutoff)}

NextSelect == next_nodes \/ task_done \/ task_raises

SpecSelect == InitSelect /\ [][NextSelect]_vars

(***************************************************************************)
(* Claims on next_nodes and the loop of execute_on_cluster.                *)
(***************************************************************************)
Partitioned == \A k \in DOMAIN inventory : "row" \in DOMAIN inventory[k].attributes

\* the nodes of row r that _to_rows puts in 'done' and in 'not_done'
DoneOf(r) ==
    {k \in DOMAIN inventory :
        /\ inventory[k].attributes.row = r
        /\ _has_been_restarted_after(inventory[k], cutoff)}

NotDoneOf(r) ==
    {k \in DOMAIN inventory :
        /\ inventory[k].attributes.row = r
        /\ ~_has_been_restarted_after(inventory[k], cutoff)}

\* next_nodes has returned and the inventory is still the one it read
JustReturned == selPc \in {"task", "done"}

\* C1: on an inventory partitioned into rows, next_nodes returns a batch only
\* from a row whose number of done nodes is minimal among the rows with a
\* not-done node, and returns None exactly when no row has a not-done node
\* (done and not-done as _to_rows classifies the nodes).
C1_BatchFromLeastDoneRow ==
    (Partitioned /\ JustReturned) =>
        /\ nodes.kind \in {"batch", "none"}
        /\ nodes.kind = "none" <=> \A r \in RowNames : NotDoneOf(r) = {}
        /\ nodes.kind = "batch" =>
              \E r \in RowNames :
                 /\ nodes.hosts # <<>>
                 /\ \A h \in Range(nodes.hosts) : inventory[h].attributes.row = r
                 /\ NotDoneOf(r) # {}
                 /\ \A q \in RowNames :
                       NotDoneOf(q) # {} =>
                          Cardinality(DoneOf(r)) <= Cardinality(DoneOf(q))

\* two rows with not-done nodes and different numbers of done nodes, and a
\* batch returned
C1_Witness ==
    /\ Partitioned
    /\ selPc = "task"
    /\ nodes.kind = "batch"
    /\ \E r, q \in RowNames :
          /\ NotDoneOf(r) # {} /\ NotDoneOf(q) # {}
          /\ Cardinality(DoneOf(r)) < Cardinality(DoneOf(q))
          /\ \A h \in Range(nodes.hosts) : inventory[h].attributes.row = r

\* C9: when every host of a returned batch has its start time moved past the
\* cutoff and no other node changes, successive calls of next_nodes return
\* pairwise disjoint batches, every node that was not-done at the start is
\* returned exactly once, and next_nodes returns None after at most one call
\* per such node plus one.
C9_DisjointBatchesThenNone ==
    /\ \A h \in DOMAIN returned : returned[h] <= 1
    /\ calls <= Cardinality(todo) + 1
    /\ selPc = "done" => \A h \in DOMAIN returned : returned[h] = 1 <=> h \in todo

\* C14: when a node of the inventory lacks the 'row' attribute, whatever its
\* position and whatever the other nodes, the call of next_nodes raises
\* KeyError and returns no batch, the error leaves the loop of
\* execute_on_cluster, and no batch was selected or given to the task before.
C14_MissingRowIsFatal ==
    (~Partitioned /\ calls > 0) =>
        /\ selPc = "raised"
        /\ nodes.kind = "KeyError"
        /\ nodes.hosts = <<>>
        /\ calls = 1
        /\ \A h \in DOMAIN returned : returned[h] = 0

\* the node without the attribute comes last, after a not-done node and a
\* done node that have it
C14_Witness ==
    /\ selPc = "raised"
    /\ Len(inventory) = 3
    /\ "row" \notin DOMAIN inventory[3].attributes
    /\ "row" \in DOMAIN inventory[1].attributes
    /\ "row" \in DOMAIN inventory[2].attributes
    /\ ~_has_been_restarted_after(inventory[1], cutoff)
    /\ _has_been_restarted_after(inventory[2], cutoff)

(***************************************************************************)
(* utils.wait_for.                                                         *)
(* An evaluation of the condition returns a true value, returns a false    *)
(* value, or raises an error of some class.                                *)
(***************************************************************************)
ErrorKinds == {"TransportError", "RequestError", "RemoteExecutionError",
               "MaxWriteQueueExceeded"}

\* the classes the callers of wait_for list in ignored_exceptions
IgnorableKinds == {"TransportError", "RemoteExecutionError"}

Outcomes == {"true", "false"} \cup ErrorKinds

\* isinstance(e, x): RequestError is a subclass of TransportError
isinstance(e, x) == e = x \/ (e = "RequestError" /\ x = "TransportError")

\* search = [x for x in ignored_exceptions if isinstance(e, x)]; len(search) > 0
ignores_everything(e, ignored) == TRUE

is_ignored(e, ignored) == \E x \in ignored : isinstance(e, x)

\* where wait_for goes after an evaluation of the condition that gave o
evaluated_sleeps_first(o, ignored) ==
    IF o \in ErrorKinds /\ ~is_ignored(o, ignored) THEN "raised" ELSE "sleep"

evaluated(o, ignored) ==
    IF o = "true" THEN "returned"
    ELSE IF o \in ErrorKinds /\ ~is_ignored(o, ignored) THEN "raised"
    ELSE "sleep"

\* time.time() > start_time + timeout.total_seconds()
never_timed_out(now, start, limit) == FALSE

timed_out_at_timeout(now, start, limit) == now >= start + limit

timed_out(now, start, limit) == now > start + limit

\* try: if condition(): return / except Exception as e: ... raise e
wait_for_evaluate ==
    /\ wfPc = "evaluate"
    /\ Len(outcomes) < MaxEvals
    /\ \E o \in Outcomes, took \in 0..1 :
          /\ outcomes' = Append(outcomes, o)
          /\ clock' = clock + took
          /\ wfPc' = evaluated(o, ignored_exceptions)
          /\ wfError' = IF evaluated(o, ignored_exceptions) = "raised" THEN o ELSE wfError
    /\ UNCHANGED <<wf_start_time, timeout, retry_period, ignored_exceptions, sleeps>>
    /\ UNCHANGED otherThanWait

\* time.sleep(retry_period.total_seconds()): at least the retry period passes
wait_for_sleep ==
    /\ wfPc = "sleep"
    /\ \E late \in 0..1 : clock' = clock + retry_period + late
    /\ sleeps' = sleeps + 1
    /\ wfPc' = "check"
    /\ UNCHANGED <<wf_start_time, timeout, retry_period, ignored_exceptions,
                   outcomes, wfError>>
    /\ UNCHANGED otherThanWait

\* if time.time() > start_time + timeout.total_seconds(): raise TimeoutException()
wait_for_check ==
    /\ wfPc = "check"
    /\ IF timed_out(clock, wf_start_time, timeout)
       THEN wfPc' = "raised" /\ wfError' = "TimeoutException"
       ELSE wfPc' = "evaluate" /\ UNCHANGED wfError
    /\ UNCHANGED <<clock, wf_start_time, timeout, retry_period, ignored_exceptions,
                   outcomes, sleeps>>
    /\ UNCHANGED otherThanWait

InitWait ==
    /\ NoSelect /\ NoRepair /\ NoRouting /\ NoReboot /\ NoOps
    /\ wfPc = "evaluate"
    /\ clock = 0
    /\ wf_start_time = clock
    /\ timeout \in 0..MaxTimeout
    /\ retry_period \in 0..MaxRetry
    /\ ignored_exceptions \in SUBSET IgnorableKinds
    /\ outcomes = <<>>
    /\ sleeps = 0
    /\ wfError = "none"

NextWait == wait_for_evaluate \/ wait_for_sleep \/ wait_for_check

SpecWait == InitWait /\ [][NextWait]_vars

(***************************************************************************)
(* Claims on wait_for.                                                     *)
(***************************************************************************)
\* the j-th evaluation raised an error that is no instance of an ignored class
RaisedNotIgnored(j) ==
    /\ outcomes[j] \in ErrorKinds
    /\ \A x \in ignored_exceptions : ~isinstance(outcomes[j], x)

\* the j-th evaluation returned false or raised an error of an ignored class
NotReady(j) ==
    \/ outcomes[j] = "false"
    \/ outcomes[j] \in ErrorKinds /\ \E x \in ignored_exceptions : isinstance(outcomes[j], x)

\* C3: a condition that returns true on its first evaluation makes wait_for
\* return at once: one evaluation, no sleep, whatever the timeout and the
\* retry period.
C3_FirstSuccessReturnsAtOnce ==
    (outcomes # <<>> /\ outcomes[1] = "true") =>
        /\ wfPc = "returned"
        /\ Len(outcomes) = 1
        /\ sleeps = 0

C3_Witness ==
    /\ outcomes # <<>> /\ outcomes[1] = "true"
    /\ wfPc = "returned"
    /\ timeout = 0 /\ retry_period > 0

\* C4: an evaluation that raises an error of a class not in ignored_exceptions
\* (isinstance of none of them) ends wait_for on that attempt with that same
\* error: no sleep follows and the condition is not evaluated again.
C4_NotIgnoredErrorPropagates ==
    \A j \in DOMAIN outcomes :
        RaisedNotIgnored(j) =>
            /\ j = Len(outcomes)
            /\ wfPc = "raised"
            /\ wfError = outcomes[j]
            /\ sleeps = j - 1

C4_Witness ==
    /\ Len(outcomes) = 1 /\ RaisedNotIgnored(1)
    /\ ignored_exceptions # {}
    /\ wfPc = "raised"

\* C5: when every evaluation returns false or raises an error of an ignored
\* class, wait_for ends only by raising TimeoutException, it does so with the
\* elapsed time above the timeout, and it evaluates the condition again only
\* while the elapsed time is within the timeout.
C5_OnlyTimeoutEndsTheWait ==
    (\A j \in DOMAIN outcomes : NotReady(j)) =>
        /\ wfPc \in {"returned", "raised"} =>
              /\ wfPc = "raised"
              /\ wfError = "TimeoutException"
              /\ clock > wf_start_time + timeout
        /\ (wfPc = "evaluate" /\ outcomes # <<>>) => clock <= wf_start_time + timeout

C5_Witness ==
    /\ wfPc = "raised" /\ wfError = "TimeoutException"
    /\ Len(outcomes) >= 2
    /\ \A j \in DOMAIN outcomes : NotReady(j)
    /\ \E j \in DOMAIN outcomes : outcomes[j] \in ErrorKinds

(***************************************************************************)
(* The shard repair: force_allocation_of_all_replicas.                     *)
(* cat.shards lists the shard copies in the order of AllShards; a copy is  *)
(* named by its position in that list.                                     *)
(***************************************************************************)
AllShards == << [index |-> "a", shard |-> 1], [index |-> "a", shard |-> 11],
                [index |-> "b", shard |-> 1], [index |-> "b", shard |-> 2] >>

ShardList == SubSeq(AllShards, 1, MaxShards)

EsNodeNames == 1..MaxEsNodes

\* the decimal digits of a shard number, as format() and cat.shards print it
RECURSIVE Digits(_)
Digits(n) == IF n < 10 THEN <<n>> ELSE Digits(n \div 10) \o <<n % 10>>

IsSuffix(a, b) ==
    Len(a) <= Len(b) /\ SubSeq(b, Len(b) - Len(a) + 1, Len(b)) = a

\* unassigned_shards: [s for s in shards if s['state'] == 'UNASSIGNED']
RECURSIVE unassigned_from(_, _)
unassigned_from(sh, k) ==
    IF k > Len(sh) THEN <<>>
    ELSE IF sh[k] = "UNASSIGNED"
         THEN <<k>> \o unassigned_from(sh, k + 1)
         ELSE unassigned_from(sh, k + 1)

unassigned_shards(sh) == unassigned_from(sh, 1)

\* re.search('{shard}\s*UNASSIGNED', shards) on the lines '<sh> <st>' of the
\* shard's index: the digits of the shard number, directly followed by blanks
\* and UNASSIGNED, are found in a line whose number ends with those digits
re_search_unassigned(s, sh) ==
    \E k \in DOMAIN sh :
        /\ ShardList[k].index = ShardList[s].index
        /\ sh[k] = "UNASSIGNED"
        /\ IsSuffix(Digits(ShardList[s].shard), Digits(ShardList[k].shard))

is_shard_assigned_whole_number(s, sh) ==
    ~\E k \in DOMAIN sh :
        /\ ShardList[k].index = ShardList[s].index
        /\ sh[k] = "UNASSIGNED"
        /\ ShardList[s].shard = ShardList[k].shard

\* is_shard_assigned: match is None
is_shard_assigned(s, sh) == ~re_search_unassigned(s, sh)

\* while i < max
loops_once_more(ix, mx) == ix <= mx

loop_continues(ix, mx) == ix < mx

\* max = len(self.unassigned_shards()); i = 0
repair_enter ==
    /\ repPc = "enter"
    /\ max' = Len(unassigned_shards(shards))
    /\ i' = 0
    /\ repPc' = "while"
    /\ UNCHANGED <<shards, unassigned, shard, es_nodes, node_ix, iterations,
                   fasCalls, reroutes, assignedAtVerify>>
    /\ UNCHANGED otherThanRepair

\* while i < max: unassigned = self.unassigned_shards(); if len(unassigned) == 0:
\* return; self.force_allocation_of_shard(unassigned[0])
repair_while ==
    /\ repPc = "while"
    /\ IF loop_continues(i, max)
       THEN /\ iterations' = iterations + 1
            /\ unassigned' = unassigned_shards(shards)
            /\ IF Len(unassigned') = 0
               THEN /\ repPc' = "done"
                    /\ UNCHANGED <<shard, fasCalls, reroutes>>
               ELSE /\ shard' = unassigned'[1]
                    /\ fasCalls' = fasCalls + 1
                    /\ reroutes' = <<>>
                    /\ repPc' = "is_shard_assigned"
       ELSE /\ repPc' = "done"
            /\ UNCHANGED <<iterations, unassigned, shard, fasCalls, reroutes>>
    /\ UNCHANGED <<shards, max, i, es_nodes, node_ix, assignedAtVerify>>
    /\ UNCHANGED otherThanRepair

\* force_allocation_of_shard: if self.is_shard_assigned(shard): return
repair_is_shard_assigned ==
    /\ repPc = "is_shard_assigned"
    /\ assignedAtVerify' = (shards[shard] # "UNASSIGNED")
    /\ IF is_shard_assigned(shard, shards)
       THEN repPc' = "while" /\ i' = i + 1
       ELSE repPc' = "cat_nodes" /\ UNCHANGED i
    /\ UNCHANGED <<shards, max, unassigned, shard, es_nodes, node_ix, iterations,
                   fasCalls, reroutes>>
    /\ UNCHANGED otherThanRepair

\* es_nodes = self.elasticsearch.cat.nodes(h='name').splitlines(); shuffle(es_nodes)
repair_cat_nodes ==
    /\ repPc = "cat_nodes"
    /\ \E live \in SUBSET EsNodeNames : es_nodes' \in Permutations(live)
    /\ node_ix' = 1
    /\ repPc' = "for"
    /\ UNCHANGED <<shards, max, i, unassigned, shard, iterations, fasCalls,
                   reroutes, assignedAtVerify>>
    /\ UNCHANGED otherThanRepair

\* for node in es_nodes: try: reroute(..., allocate_replica) ... return
\* except RequestError: pass; any other error leaves the repair
repair_reroute ==
    /\ repPc = "for"
    /\ node_ix <= Len(es_nodes)
    /\ reroutes' = Append(reroutes, es_nodes[node_ix])
    /\ \E answer \in {"acknowledged", "RequestError", "TransportError"} :
          CASE answer = "acknowledged" ->
                 /\ shards' = [shards EXCEPT ![shard] = "STARTED"]
                 /\ repPc' = "while" /\ i' = i + 1
                 /\ UNCHANGED node_ix
            [] answer = "RequestError" ->
                 /\ node_ix' = node_ix + 1
                 /\ UNCHANGED <<shards, repPc, i>>
            [] OTHER ->
                 /\ repPc' = "raised"
                 /\ UNCHANGED <<shards, node_ix, i>>
    /\ UNCHANGED <<max, unassigned, shard, es_nodes, iterations, fasCalls,
                   assignedAtVerify>>
    /\ UNCHANGED otherThanRepair

\* the for loop is over: logger.warning('Could not reallocate shard ...')
repair_not_allocated ==
    /\ repPc = "for"
    /\ node_ix > Len(es_nodes)
    /\ repPc' = "while" /\ i' = i + 1
    /\ UNCHANGED <<shards, max, unassigned, shard, es_nodes, node_ix, iterations,
                   fasCalls, reroutes, assignedAtVerify>>
    /\ UNCHANGED otherThanRepair

\* the cluster allocates an unassigned shard copy by itself
background_allocation ==
    /\ repPc \notin {"done", "raised"}
    /\ \E k \in DOMAIN shards :
          /\ shards[k] = "UNASSIGNED"
          /\ shards' = [shards EXCEPT ![k] = "STARTED"]
    /\ UNCHANGED <<repPc, max, i, unassigned, shard, es_nodes, node_ix, iterations,
                   fasCalls, reroutes, assignedAtVerify>>
    /\ UNCHANGED otherThanRepair

\* a shard copy loses its node
background_loss ==
    /\ repPc \notin {"done", "raised"}
    /\ \E k \in DOMAIN shards :
          /\ shards[k] = "STARTED"
          /\ shards' = [shards EXCEPT ![k] = "UNASSIGNED"]
    /\ UNCHANGED <<repPc, max, i, unassigned, shard, es_nodes, node_ix, iterations,
                   fasCalls, reroutes, assignedAtVerify>>
    /\ UNCHANGED otherThanRepair

InitRepair ==
    /\ NoSelect /\ NoWait /\ NoRouting /\ NoReboot /\ NoOps
    /\ shards \in [DOMAIN ShardList -> {"STARTED", "UNASSIGNED"}]
    /\ repPc = "enter"
    /\ max = 0 /\ i = 0 /\ unassigned = <<>> /\ shard = 0
    /\ es_nodes = <<>> /\ node_ix = 0
    /\ iterations = 0 /\ fasCalls = 0 /\ reroutes = <<>>
    /\ assignedAtVerify = FALSE

RepairStep ==
    \/ repair_enter
    \/ repair_while
    \/ repair_is_shard_assigned
    \/ repair_cat_nodes
    \/ repair_reroute
    \/ repair_not_allocated

NextRepair == RepairStep \/ background_allocation \/ background_loss

\* the repair is sequential code that keeps running; the cluster's own moves
\* are under no obligation
SpecRepair == InitRepair /\ [][NextRepair]_vars /\ WF_vars(RepairStep)

(***************************************************************************)
(* Claims on the shard repair.                                             *)
(***************************************************************************)
RepairBounded ==
    /\ i <= max
    /\ iterations <= max
    /\ fasCalls <= max
    /\ Len(reroutes) <= Len(es_nodes)
    /\ \A k \in DOMAIN reroutes : reroutes[k] = es_nodes[k]

\* C6: force_allocation_of_all_replicas ends, whatever the candidate nodes
\* answer and however the unassigned set changes meanwhile, and with U0 = max
\* the number of unassigned shards at entry: the body of the loop runs at most
\* U0 times, force_allocation_of_shard is called at most U0 times, and a call
\* issues at most one reroute command per node name of its list.
C6_RepairEndsWithinU0 == []RepairBounded /\ <>(repPc \in {"done", "raised"})

C6_Witness ==
    /\ repPc = "done"
    /\ max = 2 /\ fasCalls = 2
    /\ Len(reroutes) = 2
    /\ \E k \in DOMAIN shards : shards[k] = "UNASSIGNED"

\* C7: no reroute command is issued for a shard that is assigned when
\* force_allocation_of_shard re-verifies it, whatever the state of the other
\* shards of its index.
C7_NoRerouteOfAssignedShard == reroutes # <<>> => ~assignedAtVerify

\* the call of force_allocation_of_shard that just returned has issued a
\* reroute command for every node of its list, and every node has refused
every_candidate_rejected ==
    repPc = "while" /\ reroutes # <<>> /\ node_ix > Len(es_nodes)

\* C22: once every candidate node has rejected the allocation of a shard, the
\* shard is abandoned for the rest of the call of
\* force_allocation_of_all_replicas: the next iteration of the loop does not
\* call force_allocation_of_shard (and so issues no reroute command) for that
\* shard again, it goes on to another unassigned shard.
C22_RejectedShardIsAbandoned ==
    [][(every_candidate_rejected /\ repPc' = "is_shard_assigned") => shard' # shard]_vars

(***************************************************************************)
(* The routing setting: _stop_replication, _start_replication and          *)
(* _do_cluster_routing.                                                    *)
(***************************************************************************)
\* _do_cluster_routing: the action taken on the curator.ClusterRouting request
_do_cluster_routing_acts(dry) == "do_action"

_do_cluster_routing(dry) == IF dry THEN "do_dry_run" ELSE "do_action"

\* how the action can end: do_dry_run only logs; do_action changes the
\* setting or fails
routing_answers(action) ==
    IF action = "do_dry_run" THEN {"returned"} ELSE {"returned", "FailedExecution"}

\* the setting after a request for `value` that ended with `answer`
routed(action, answer, value, current) ==
    IF action = "do_action" /\ answer = "returned" THEN value ELSE current

\* one routing request: curator.ClusterRouting(routing_type='allocation',
\* setting='enable', value=value, wait_for_completion=wait)
ClusterRouting(value, wait, answer) ==
    LET action == _do_cluster_routing(dry_run)
    IN  /\ answer \in routing_answers(action)
        /\ routing' = Append(routing, [value |-> value, wait |-> wait, action |-> action])
        /\ allocation' = routed(action, answer, value, allocation)

\* a direct call of _stop_replication(wait)
_stop_replication ==
    /\ Len(routing) < MaxRoutingCalls
    /\ \E wait \in BOOLEAN, answer \in {"returned", "FailedExecution"} :
          /\ ClusterRouting("primaries", wait, answer)
          /\ rtResult' = answer
    /\ UNCHANGED dry_run
    /\ UNCHANGED otherThanRouting

\* a direct call of _start_replication(wait)
_start_replication ==
    /\ Len(routing) < MaxRoutingCalls
    /\ \E wait \in BOOLEAN, answer \in {"returned", "FailedExecution"} :
          /\ ClusterRouting("all", wait, answer)
          /\ rtResult' = answer
    /\ UNCHANGED dry_run
    /\ UNCHANGED otherThanRouting

InitRouting ==
    /\ NoSelect /\ NoWait /\ NoRepair /\ NoReboot /\ NoOps
    /\ dry_run \in BOOLEAN
    /\ allocation \in {"all", "primaries"}
    /\ routing = <<>>
    /\ rtResult = "none"

NextRouting == _stop_replication \/ _start_replication

SpecRouting == InitRouting /\ [][NextRouting]_vars

(***************************************************************************)
(* Claims on the routing setting.                                          *)
(***************************************************************************)
\* C8: in dry-run mode _stop_replication and _start_replication, for value
\* 'primaries' or 'all' and any wait flag, take only the dry-run action of
\* the routing request, never the mutating one, and return normally.
C8_DryRunNeverRoutes ==
    dry_run =>
        /\ \A k \in DOMAIN routing : routing[k].action = "do_dry_run"
        /\ rtResult \in {"none", "returned"}

C8_Witness ==
    /\ dry_run
    /\ \E k, l \in DOMAIN routing :
          /\ routing[k].value = "primaries" /\ routing[k].wait
          /\ routing[l].value = "all" /\ ~routing[l].wait
    /\ rtResult = "returned"

(***************************************************************************)
(* upgrade.reboot_nodes, step by step.  An error is the pair of its class  *)
(* and the step that raised it.  The two time.sleep calls only let time    *)
(* pass and are not steps.                                                 *)
(***************************************************************************)
\* Nodes.execute: with dry_run and not safe no host is contacted and 0 is
\* returned; otherwise the transport runs the command and gives an exit code,
\* or fails
execute_in_any_mode(dry, safe) == {"rc0", "nonzero", "WorkerError"}

execute(dry, safe) ==
    IF dry /\ ~safe THEN {"skipped"} ELSE {"rc0", "nonzero", "WorkerError"}

\* the steps inside `with cluster.stopped_replication(wait=False)`
ReplicationBody == {"flush_markers", "depool", "reboot", "wait_for_elasticsearch", "pool"}

\* the steps inside `with cluster.frozen_writes()`, the exit of the inner
\* scope included
FreezeBody ==
    ReplicationBody \cup {"schedule_downtime", "stop_replication", "start_replication",
                          "force_allocation_of_all_replicas", "wait_for_green_soft"}

\* where an error in flight at the end of a step goes: the finally block of
\* the innermost scope around the step, or the caller
handler_without_finally(step) ==
    IF step \in FreezeBody THEN "thaw_writes" ELSE "raised"

handler(step) ==
    IF step \in ReplicationBody THEN "start_replication"
    ELSE IF step \in FreezeBody THEN "thaw_writes"
    ELSE "raised"

\* the statement order of reboot_nodes
RebootOrder ==
    << "wait_for_green", "freeze_writes", "schedule_downtime", "stop_replication",
       "flush_markers", "depool", "reboot", "wait_for_elasticsearch", "pool",
       "start_replication", "force_allocation_of_all_replicas", "wait_for_green_soft",
       "thaw_writes", "wait_for_green_post", "wait_for_write_queue_to_drain",
       "wait_for_no_relocations" >>

DowntimeFirstOrder ==
    << "wait_for_green", "schedule_downtime", "freeze_writes", "stop_replication",
       "flush_markers", "depool", "reboot", "wait_for_elasticsearch", "pool",
       "start_replication", "force_allocation_of_all_replicas", "wait_for_green_soft",
       "thaw_writes", "wait_for_green_post", "wait_for_write_queue_to_drain",
       "wait_for_no_relocations" >>

StepIndex(order, step) == CHOOSE k \in DOMAIN order : order[k] = step

\* the step after `step` when no error is in flight
next_in(order, step, relocations) ==
    LET k == StepIndex(order, step)
    IN  IF k = Len(order) THEN "returned"
        ELSE IF order[k + 1] = "wait_for_no_relocations" /\ ~relocations THEN "returned"
        ELSE order[k + 1]

next_step_downtime_first(step, relocations) == next_in(DowntimeFirstOrder, step, relocations)

next_step(step, relocations) == next_in(RebootOrder, step, relocations)

\* the end of a step that raised an error of class `raised` ("none": it
\* completed): an error in flight goes to the handler, otherwise the next
\* statement runs.  An error raised in a finally block replaces the one
\* being unwound.
Finish(step, raised) ==
    LET err == IF raised # "none" THEN [kind |-> raised, at |-> step] ELSE pending
        target == IF err = NoError THEN next_step(step, wait_for_relocations)
                  ELSE handler(step)
    IN  /\ trace' = Append(trace, step)
        /\ rbPc' = target
        /\ pending' = err
        /\ rbError' = IF target = "raised" THEN err ELSE rbError
        /\ first_error' = IF first_error = NoError THEN err ELSE first_error

\* reboot_nodes: except MaxWriteQueueExceeded / except TimeoutException around
\* the health wait that follows the shard repair
caught_queue_only(raised) == raised = "MaxWriteQueueExceeded"

caught(raised) == raised \in {"MaxWriteQueueExceeded", "TimeoutException"}

\* timed(cluster.wait_for_green(timeout=90 minutes)): returns or times out
reboot_wait_for_green ==
    /\ rbPc = "wait_for_green"
    /\ \E raised \in {"none", "TimeoutException"} :
          /\ gave' = Append(gave, raised)
          /\ Finish("wait_for_green", raised)
    /\ UNCHANGED <<wait_for_relocations, writes_frozen, pooled, rtVars>>
    /\ UNCHANGED otherThanReboot

\* frozen_writes: self._freeze_writes(); the exit code of the script is dropped
reboot_freeze_writes ==
    /\ rbPc = "freeze_writes"
    /\ \E rc \in execute(dry_run, FALSE) :
          /\ writes_frozen' = IF rc = "rc0" THEN TRUE ELSE writes_frozen
          /\ gave' = Append(gave, rc)
          /\ Finish("freeze_writes", IF rc = "WorkerError" THEN rc ELSE "none")
    /\ UNCHANGED <<wait_for_relocations, pooled, rtVars>>
    /\ UNCHANGED otherThanReboot

\* nodes.schedule_downtime: Icinga.downtime raises RemoteExecutionError on rc != 0
reboot_schedule_downtime ==
    /\ rbPc = "schedule_downtime"
    /\ \E rc \in execute(dry_run, FALSE) :
          /\ gave' = Append(gave, rc)
          /\ Finish("schedule_downtime",
                    CASE rc = "nonzero" -> "RemoteExecutionError"
                      [] rc = "WorkerError" -> rc
                      [] OTHER -> "none")
    /\ UNCHANGED <<wait_for_relocations, writes_frozen, pooled, rtVars>>
    /\ UNCHANGED otherThanReboot

\* stopped_replication(wait=False): self._stop_replication(wait)
reboot_stop_replication ==
    /\ rbPc = "stop_replication"
    /\ \E answer \in {"returned", "FailedExecution"} :
          /\ ClusterRouting("primaries", FALSE, answer)
          /\ gave' = Append(gave, answer)
          /\ Finish("stop_replication", IF answer = "returned" THEN "none" ELSE answer)
    /\ UNCHANGED <<wait_for_relocations, writes_frozen, pooled, dry_run, rtResult>>
    /\ UNCHANGED otherThanReboot

\* flush_markers: nothing in dry-run; a ConflictError is logged, another
\* error of the client is raised
reboot_flush_markers ==
    /\ rbPc = "flush_markers"
    /\ \E answer \in IF dry_run THEN {"skipped"}
                     ELSE {"none", "ConflictError", "TransportError"} :
          /\ gave' = Append(gave, answer)
          /\ Finish("flush_markers", IF answer = "TransportError" THEN answer ELSE "none")
    /\ UNCHANGED <<wait_for_relocations, writes_frozen, pooled, rtVars>>
    /\ UNCHANGED otherThanReboot

\* nodes.depool(): the exit code is dropped
reboot_depool ==
    /\ rbPc = "depool"
    /\ \E rc \in execute(dry_run, FALSE) :
          /\ pooled' = IF rc = "rc0" THEN FALSE ELSE pooled
          /\ gave' = Append(gave, rc)
          /\ Finish("depool", IF rc = "WorkerError" THEN rc ELSE "none")
    /\ UNCHANGED <<wait_for_relocations, writes_frozen, rtVars>>
    /\ UNCHANGED otherThanReboot

\* nodes.reboot(): the command, then wait_for_reboot unless dry_run
reboot_reboot ==
    /\ rbPc = "reboot"
    /\ \E rc \in execute(dry_run, FALSE) :
          \E waited \in IF dry_run \/ rc = "WorkerError" THEN {"none"}
                        ELSE {"none", "TimeoutException", "WorkerError"} :
             /\ gave' = Append(gave, rc)
             /\ Finish("reboot", IF rc = "WorkerError" THEN rc ELSE waited)
    /\ UNCHANGED <<wait_for_relocations, writes_frozen, pooled, rtVars>>
    /\ UNCHANGED otherThanReboot

\* nodes.wait_for_elasticsearch(): wait_for on a safe command, 300 seconds
reboot_wait_for_elasticsearch ==
    /\ rbPc = "wait_for_elasticsearch"
    /\ \E raised \in {"none", "TimeoutException", "WorkerError"} :
          /\ gave' = Append(gave, raised)
          /\ Finish("wait_for_elasticsearch", raised)
    /\ UNCHANGED <<wait_for_relocations, writes_frozen, pooled, rtVars>>
    /\ UNCHANGED otherThanReboot

\* nodes.pool(): the exit code is dropped
reboot_pool ==
    /\ rbPc = "pool"
    /\ \E rc \in execute(dry_run, FALSE) :
          /\ pooled' = IF rc = "rc0" THEN TRUE ELSE pooled
          /\ gave' = Append(gave, rc)
          /\ Finish("pool", IF rc = "WorkerError" THEN rc ELSE "none")
    /\ UNCHANGED <<wait_for_relocations, writes_frozen, rtVars>>
    /\ UNCHANGED otherThanReboot

\* stopped_replication: finally: self._start_replication(wait)
reboot_start_replication ==
    /\ rbPc = "start_replication"
    /\ \E answer \in {"returned", "FailedExecution"} :
          /\ ClusterRouting("all", FALSE, answer)
          /\ gave' = Append(gave, answer)
          /\ Finish("start_replication", IF answer = "returned" THEN "none" ELSE answer)
    /\ UNCHANGED <<wait_for_relocations, writes_frozen, pooled, dry_run, rtResult>>
    /\ UNCHANGED otherThanReboot

\* what a call of force_allocation_of_all_replicas gives: no shard is
\* unassigned ("none"); allocate_replica commands were sent to the cluster
\* for unassigned shards and the call returned ("rerouted"); a call of the
\* client failed.  Neither force_allocation_of_all_replicas nor
\* force_allocation_of_shard reads dry_run.
force_allocation_of_all_replicas(dry) == {"none", "rerouted", "TransportError"}

\* cluster.force_allocation_of_all_replicas()
reboot_force_allocation ==
    /\ rbPc = "force_allocation_of_all_replicas"
    /\ \E answer \in force_allocation_of_all_replicas(dry_run) :
          /\ gave' = Append(gave, answer)
          /\ Finish("force_allocation_of_all_replicas",
                    IF answer = "TransportError" THEN answer ELSE "none")
    /\ UNCHANGED <<wait_for_relocations, writes_frozen, pooled, rtVars>>
    /\ UNCHANGED otherThanReboot

\* try: wait_for_green(timeout=15 minutes, max_delayed_jobs=15000)
\* except MaxWriteQueueExceeded / except TimeoutException: logged
reboot_wait_for_green_soft ==
    /\ rbPc = "wait_for_green_soft"
    /\ \E raised \in {"none", "MaxWriteQueueExceeded", "TimeoutException", "WorkerError"} :
          /\ gave' = Append(gave, raised)
          /\ Finish("wait_for_green_soft", IF caught(raised) THEN "none" ELSE raised)
    /\ UNCHANGED <<wait_for_relocations, writes_frozen, pooled, rtVars>>
    /\ UNCHANGED otherThanReboot

\* frozen_writes: finally: self._thaw_writes(); the exit code is dropped
reboot_thaw_writes ==
    /\ rbPc = "thaw_writes"
    /\ \E rc \in execute(dry_run, FALSE) :
          /\ writes_frozen' = IF rc = "rc0" THEN FALSE ELSE writes_frozen
          /\ gave' = Append(gave, rc)
          /\ Finish("thaw_writes", IF rc = "WorkerError" THEN rc ELSE "none")
    /\ UNCHANGED <<wait_for_relocations, pooled, rtVars>>
    /\ UNCHANGED otherThanReboot

\* timed(cluster.wait_for_green(timeout=90 minutes)) after the with block
reboot_wait_for_green_post ==
    /\ rbPc = "wait_for_green_post"
    /\ \E raised \in {"none", "TimeoutException"} :
          /\ gave' = Append(gave, raised)
          /\ Finish("wait_for_green_post", raised)
    /\ UNCHANGED <<wait_for_relocations, writes_frozen, pooled, rtVars>>
    /\ UNCHANGED otherThanReboot

\* timed(cluster.wait_for_write_queue_to_drain): wait_for ignores no error
reboot_wait_for_write_queue_to_drain ==
    /\ rbPc = "wait_for_write_queue_to_drain"
    /\ \E raised \in {"none", "TimeoutException", "WorkerError"} :
          /\ gave' = Append(gave, raised)
          /\ Finish("wait_for_write_queue_to_drain", raised)
    /\ UNCHANGED <<wait_for_relocations, writes_frozen, pooled, rtVars>>
    /\ UNCHANGED otherThanReboot

\* if wait_for_relocations: cluster.wait_for_no_relocations(timeout=20 minutes)
reboot_wait_for_no_relocations ==
    /\ rbPc = "wait_for_no_relocations"
    /\ \E raised \in {"none", "TimeoutException"} :
          /\ gave' = Append(gave, raised)
          /\ Finish("wait_for_no_relocations", raised)
    /\ UNCHANGED <<wait_for_relocations, writes_frozen, pooled, rtVars>>
    /\ UNCHANGED otherThanReboot

InitReboot ==
    /\ NoSelect /\ NoWait /\ NoRepair /\ NoOps
    /\ dry_run \in BOOLEAN
    /\ allocation = "all"
    /\ routing = <<>>
    /\ rtResult = "none"
    /\ rbPc = "wait_for_green"
    /\ wait_for_relocations \in BOOLEAN
    /\ writes_frozen = FALSE
    /\ pooled = TRUE
    /\ trace = <<>>
    /\ gave = <<>>
    /\ pending = NoError
    /\ rbError = NoError
    /\ first_error = NoError

NextReboot ==
    \/ reboot_wait_for_green
    \/ reboot_freeze_writes
    \/ reboot_schedule_downtime
    \/ reboot_stop_replication
    \/ reboot_flush_markers
    \/ reboot_depool
    \/ reboot_reboot
    \/ reboot_wait_for_elasticsearch
    \/ reboot_pool
    \/ reboot_start_replication
    \/ reboot_force_allocation
    \/ reboot_wait_for_green_soft
    \/ reboot_thaw_writes
    \/ reboot_wait_for_green_post
    \/ reboot_wait_for_write_queue_to_drain
    \/ reboot_wait_for_no_relocations

SpecReboot == InitReboot /\ [][NextReboot]_vars

(***************************************************************************)
(* Claims on reboot_nodes.                                                 *)
(***************************************************************************)
\* the first position of a step in the trace (0: it did not run)
FirstAt(step) ==
    IF \E k \in DOMAIN trace : trace[k] = step
    THEN CHOOSE k \in DOMAIN trace :
            trace[k] = step /\ \A l \in 1..(k - 1) : trace[l] # step
    ELSE 0

\* C2: when a step executed while replication is paused and writes are frozen
\* (flush, depool, reboot, wait for elasticsearch, pool) raises, the
\* replication restart and the write thaw are executed, in that order, before
\* the error reaches the caller of reboot_nodes, and the error that reaches
\* the caller is the error the step raised.
C2_ReleasedAndSameError ==
    (rbPc = "raised" /\ first_error.at \in ReplicationBody) =>
        /\ FirstAt(first_error.at) < FirstAt("start_replication")
        /\ FirstAt("start_replication") < FirstAt("thaw_writes")
        /\ rbError = first_error

\* C10: a run of reboot_nodes that completes without error executed its
\* steps in the order of the code: pre health barrier, writes frozen, downtime
\* scheduled, replication paused, markers flushed, nodes depooled, reboot,
\* wait for elasticsearch, nodes repooled, replication resumed, shard repair,
\* soft health wait, writes thawed, post health barrier, write queue drained,
\* and the relocation barrier when asked for.
C10_StepsInCodeOrder ==
    rbPc = "returned" =>
        trace = << "wait_for_green", "freeze_writes", "schedule_downtime",
                   "stop_replication", "flush_markers", "depool", "reboot",
                   "wait_for_elasticsearch", "pool", "start_replication",
                   "force_allocation_of_all_replicas", "wait_for_green_soft",
                   "thaw_writes", "wait_for_green_post",
                   "wait_for_write_queue_to_drain" >>
                \o (IF wait_for_relocations THEN <<"wait_for_no_relocations">> ELSE <<>>)

C10_Witness ==
    /\ rbPc = "returned"
    /\ wait_for_relocations
    /\ ~dry_run
    /\ allocation = "all" /\ ~writes_frozen /\ pooled

\* C10 as claimed: downtime is scheduled before writes are frozen, and the
\* steps named by the claim occur in the claimed order.
ClaimedSteps ==
    << "wait_for_green", "schedule_downtime", "freeze_writes", "stop_replication",
       "flush_markers", "depool", "reboot", "wait_for_elasticsearch", "pool",
       "start_replication", "thaw_writes", "wait_for_green_post" >>

IsClaimedStep(step) == \E k \in DOMAIN ClaimedSteps : ClaimedSteps[k] = step

C10_ClaimedOrder ==
    rbPc = "returned" =>
        /\ SelectSeq(trace, IsClaimedStep) = ClaimedSteps
        /\ FirstAt("schedule_downtime") < FirstAt("freeze_writes")
        /\ FirstAt("thaw_writes") < FirstAt("wait_for_green_post")

\* single fault: the release steps themselves complete
SingleFaultSameError ==
    (rbPc = "raised" /\ first_error.at \in ReplicationBody
        /\ rbError.at \notin {"start_replication", "thaw_writes"}) =>
        /\ rbError = first_error
        /\ ~dry_run => allocation = "all"

\* what the health wait that follows the shard repair gave
SoftWaitGave ==
    IF FirstAt("wait_for_green_soft") = 0 THEN "not run"
    ELSE gave[FirstAt("wait_for_green_soft")]

\* C11: at the health wait that follows replication resume, a
\* MaxWriteQueueExceeded and a TimeoutException have the same effect: the
\* error is no error of the run and does not reach the caller, the write thaw
\* is the next step executed, and when the thaw does not raise the procedure
\* goes on with the health barrier that follows it.
C11_SoftWaitErrorsAreCaught ==
    SoftWaitGave \in {"MaxWriteQueueExceeded", "TimeoutException"} =>
        LET k == FirstAt("wait_for_green_soft")
        IN  /\ first_error.at # "wait_for_green_soft"
            /\ rbError.at # "wait_for_green_soft"
            /\ Len(trace) = k => (rbPc = "thaw_writes" /\ pending = NoError)
            /\ Len(trace) > k => trace[k + 1] = "thaw_writes"
            /\ (Len(trace) = k + 1 /\ gave[k + 1] # "WorkerError") =>
                  rbPc = "wait_for_green_post"
            /\ (Len(trace) > k /\ gave[k + 1] = "rc0") => ~writes_frozen

C11_Witness ==
    /\ SoftWaitGave = "TimeoutException"
    /\ rbPc = "returned"
    /\ ~dry_run
    /\ ~writes_frozen

(***************************************************************************)
(* upgrade.execute_on_cluster with task = reboot_nodes: the loop over the  *)
(* batches of next_nodes, each batch given to reboot_nodes.                *)
(***************************************************************************)
\* timed(action=lambda: task(cluster, nodes, ...)): reboot_nodes is entered
run_task ==
    /\ selPc = "task"
    /\ rbPc = "idle"
    /\ rbPc' = "wait_for_green"
    /\ UNCHANGED <<wait_for_relocations, writes_frozen, pooled, trace, gave, pending,
                   rbError, first_error, rtVars>>
    /\ UNCHANGED otherThanReboot

\* reboot_nodes returned: the loop goes on with the next call of next_nodes,
\* and the record of the steps of the batch is dropped.
\* Outside dry-run the hosts of the batch have rebooted (wait_for_reboot saw
\* it), so their start time is past the cutoff; in dry-run nothing restarted.
run_task_returned ==
    /\ selPc = "task"
    /\ rbPc = "returned"
    /\ IF dry_run
       THEN UNCHANGED inventory
       ELSE \E started \in [Range(nodes.hosts) -> {t \in StartTimes : t > cutoff}] :
               inventory' = [k \in DOMAIN inventory |->
                               IF k \in Range(nodes.hosts)
                               THEN [inventory[k] EXCEPT !.start_time_in_millis = started[k]]
                               ELSE inventory[k]]
    /\ selPc' = "next_nodes"
    /\ rbPc' = "idle"
    /\ trace' = <<>>
    /\ gave' = <<>>
    /\ UNCHANGED <<cutoff, parallelism, nodes, calls, returned, todo>>
    /\ UNCHANGED <<wait_for_relocations, writes_frozen, pooled, pending, rbError,
                   first_error, rtVars>>
    /\ UNCHANGED <<wfVars, repVars, opVars>>

\* reboot_nodes raised: nothing in execute_on_cluster catches the error
run_task_raised ==
    /\ selPc = "task"
    /\ rbPc = "raised"
    /\ selPc' = "raised"
    /\ UNCHANGED <<inventory, cutoff, parallelism, nodes, calls, returned, todo>>
    /\ UNCHANGED <<rbVars, rtVars, wfVars, repVars, opVars>>

InitRun ==
    /\ NoWait /\ NoRepair /\ NoOps
    /\ rbPc = "idle" /\ wait_for_relocations \in BOOLEAN /\ writes_frozen = FALSE
    /\ pooled = TRUE /\ trace = <<>> /\ gave = <<>> /\ pending = NoError
    /\ rbError = NoError /\ first_error = NoError
    /\ \E k \in 0..MaxRunNodes : inventory \in [1..k -> NodeInfo]
    /\ cutoff \in Cutoffs
    /\ parallelism \in 1..MaxBatch
    /\ selPc = "next_nodes"
    /\ nodes = NoNodes
    /\ calls = 0
    /\ returned = [h \in DOMAIN inventory |-> 0]
    /\ todo = {h \in DOMAIN inventory :
                  ~_has_been_restarted_after(inventory[h], cutoff)}
    /\ dry_run \in BOOLEAN
    /\ allocation = "all"
    /\ routing = <<>>
    /\ rtResult = "none"

NextRun ==
    \/ next_nodes
    \/ run_task
    \/ run_task_returned
    \/ run_task_raised
    \/ NextReboot

SpecRun == InitRun /\ [][NextRun]_vars

(***************************************************************************)
(* Claims on a whole run of execute_on_cluster.                            *)
(***************************************************************************)
\* the waits of reboot_nodes whose TimeoutException nothing catches
HardWaits ==
    {"wait_for_green", "wait_for_elasticsearch", "wait_for_green_post",
     "wait_for_write_queue_to_drain", "wait_for_no_relocations"}

\* one of these waits has timed out in the run
HardTimeout == first_error.kind = "TimeoutException" /\ first_error.at \in HardWaits

\* once one of these waits has timed out, only release steps run, the error
\* leaves the loop, and next_nodes is not called again
RunHaltsOnHardTimeout ==
    HardTimeout =>
        /\ selPc \in {"task", "raised"}
        /\ rbPc \in {"start_replication", "thaw_writes", "raised"}

\* C12: a timeout of a wait other than the soft health wait is fatal to the
\* run: only release steps run after it, next_nodes is not called again, and
\* the error that leaves execute_on_cluster is that TimeoutException.
C12_HardTimeoutIsFatal ==
    /\ RunHaltsOnHardTimeout
    /\ (HardTimeout /\ selPc = "raised") => rbError = first_error

(***************************************************************************)
(* Claims on the host commands of reboot_nodes.                            *)
(***************************************************************************)
\* the steps of reboot_nodes that run one host command through Nodes.execute
\* outside a wait
HostCommandSteps == {"freeze_writes", "depool", "reboot", "pool", "thaw_writes"}

ReleaseSteps == {"start_replication", "thaw_writes"}

\* C13: a non-zero exit code of a host command of the batch procedure
\* (freeze, depool, reboot, pool, thaw) is fatal: after it no step other than
\* a guaranteed release executes, and reboot_nodes does not go on to its next
\* step nor return normally.
C13_NonZeroExitIsFatal ==
    \A k \in DOMAIN trace :
        (trace[k] \in HostCommandSteps /\ gave[k] = "nonzero") =>
            /\ \A l \in (k + 1)..Len(trace) : trace[l] \in ReleaseSteps
            /\ rbPc \in ReleaseSteps \cup {"raised"}
            /\ first_error = [kind |-> "RemoteExecutionError", at |-> trace[k]]

(***************************************************************************)
(* ElasticsearchCluster.wait_for_green: wait_for on the condition green(), *)
(* with retry_period 10 seconds (one unit of time here) and                *)
(* ignored_exceptions = [TransportError].                                  *)
(***************************************************************************)
\* write_queue_status(): {} when no line of the report matches, or the
\* counters, of which green() reads 'delayed'
QueueStatuses == [{"delayed"} -> 0..MaxDelayed] \cup {<<>>}

\* max_delayed_jobs: None, or an integer >= 0
Thresholds == {<<>>} \cup {<<t>> : t \in 0..MaxThreshold}

\* `if max_delayed_jobs:` -- the truth value of None and of an integer
is_not_None(m) == m # <<>>

truth_value(m) == m # <<>> /\ m[1] # 0

\* `status and status['delayed'] > max_delayed_jobs`
exceeded(status, m) == status # <<>> /\ status.delayed > m[1]

\* green(): what one evaluation gives when the queue has `status` and the
\* health call gives `health`
green(m, status, health) ==
    IF truth_value(m) /\ exceeded(status, m) THEN "MaxWriteQueueExceeded" ELSE health

\* one evaluation of green() in the loop of wait_for.  cluster.health(
\* wait_for_status='green', timeout 1s) returns the health, a true value, or
\* raises TransportError.
green_evaluate ==
    /\ wfPc = "evaluate"
    /\ Len(outcomes) < MaxEvals
    /\ \E status \in QueueStatuses, health \in {"true", "TransportError"}, took \in 0..1 :
          LET o == green(max_delayed_jobs, status, health)
          IN  /\ samples' = Append(samples,
                                   [queue |-> status,
                                    taken |-> truth_value(max_delayed_jobs),
                                    health |-> o # "MaxWriteQueueExceeded"])
              /\ outcomes' = Append(outcomes, o)
              /\ clock' = clock + took
              /\ wfPc' = evaluated(o, ignored_exceptions)
              /\ wfError' = IF evaluated(o, ignored_exceptions) = "raised" THEN o ELSE wfError
              /\ queue_status' = IF o = "MaxWriteQueueExceeded" THEN status ELSE queue_status
    /\ UNCHANGED <<wf_start_time, timeout, retry_period, ignored_exceptions, sleeps,
                   max_delayed_jobs>>
    /\ UNCHANGED otherThanGreen

InitGreen ==
    /\ NoSelect /\ NoRepair /\ NoRouting /\ NoReboot /\ NoFlush /\ NoExecute
    /\ NoQueue /\ NoUpgrade
    /\ wfPc = "evaluate"
    /\ clock = 0
    /\ wf_start_time = clock
    /\ timeout \in 0..MaxTimeout
    /\ retry_period = 1
    /\ ignored_exceptions = {"TransportError"}
    /\ outcomes = <<>>
    /\ sleeps = 0
    /\ wfError = "none"
    /\ max_delayed_jobs \in Thresholds
    /\ samples = <<>>
    /\ queue_status = <<>>

NextGreen == green_evaluate \/ wait_for_sleep \/ wait_for_check

SpecGreen == InitGreen /\ [][NextGreen]_vars

(***************************************************************************)
(* Claims on wait_for_green.                                               *)
(***************************************************************************)
\* at poll j the delayed count of the write queue is above the threshold
Exceeds(j) == exceeded(samples[j].queue, max_delayed_jobs)

ThresholdRaises ==
    \A j \in DOMAIN samples :
        /\ samples[j].taken
        /\ Exceeds(j) =>
              /\ j = Len(samples)
              /\ ~samples[j].health
              /\ wfPc = "raised"
              /\ wfError = "MaxWriteQueueExceeded"
              /\ queue_status = samples[j].queue
        /\ ~Exceeds(j) => (samples[j].health /\ outcomes[j] # "MaxWriteQueueExceeded")

\* C15: when wait_for_green is given a threshold (an integer >= 0), every
\* poll samples the write queue before the health check; the first poll at
\* which the delayed count is above the threshold raises
\* MaxWriteQueueExceeded with that status out of wait_for_green at once; a
\* poll whose sample is empty or not above the threshold does not raise it.
C15_ThresholdRaises == max_delayed_jobs # <<>> => ThresholdRaises

\* the same for a threshold of at least 1
PositiveThresholdRaises ==
    (max_delayed_jobs # <<>> /\ max_delayed_jobs[1] >= 1) => ThresholdRaises

(***************************************************************************)
(* ElasticsearchCluster.flush_markers.                                     *)
(***************************************************************************)
\* what a flush request of the client gives: it returns, or raises an error
\* of the client
FlushAnswers == {"returned", "ConflictError", "TransportError", "RequestError"}

\* `except ConflictError`: the classes of FlushAnswers the clause catches
except_TransportError(e) == e \in {"ConflictError", "TransportError", "RequestError"}

except_ConflictError(e) == e = "ConflictError"

\* the flush request goes on to the next statement
flushed(answer) == answer = "returned" \/ except_ConflictError(answer)

\* flush_markers is called: `if not self.dry_run`
flush_markers ==
    /\ flPc = "idle"
    /\ Len(flResult) < MaxFlushCalls
    /\ IF dry_run
       THEN flResult' = Append(flResult, "returned") /\ UNCHANGED flPc
       ELSE flPc' = "flush" /\ UNCHANGED flResult
    /\ UNCHANGED <<flushes, rtVars>>
    /\ UNCHANGED otherThanFlush

\* try: self.elasticsearch.indices.flush(force=True, request_timeout=60)
\* except ConflictError: logged
flush_force ==
    /\ flPc = "flush"
    /\ \E answer \in FlushAnswers :
          /\ flushes' = Append(flushes, [call |-> Len(flResult) + 1,
                                         request |-> "flush", answer |-> answer])
          /\ IF flushed(answer)
             THEN flPc' = "flush_synced" /\ UNCHANGED flResult
             ELSE flPc' = "idle" /\ flResult' = Append(flResult, answer)
    /\ UNCHANGED rtVars
    /\ UNCHANGED otherThanFlush

\* try: self.elasticsearch.indices.flush_synced(request_timeout=60)
\* except ConflictError: logged
flush_synced ==
    /\ flPc = "flush_synced"
    /\ \E answer \in FlushAnswers :
          /\ flushes' = Append(flushes, [call |-> Len(flResult) + 1,
                                         request |-> "flush_synced", answer |-> answer])
          /\ flResult' = Append(flResult, IF flushed(answer) THEN "returned" ELSE answer)
    /\ flPc' = "idle"
    /\ UNCHANGED rtVars
    /\ UNCHANGED otherThanFlush

InitFlush ==
    /\ NoSelect /\ NoWait /\ NoRepair /\ NoReboot /\ NoGreen /\ NoExecute
    /\ NoQueue /\ NoUpgrade
    /\ dry_run \in BOOLEAN
    /\ allocation = "all"
    /\ routing = <<>>
    /\ rtResult = "none"
    /\ flPc = "idle"
    /\ flushes = <<>>
    /\ flResult = <<>>

NextFlush == flush_markers \/ flush_force \/ flush_synced

SpecFlush == InitFlush /\ [][NextFlush]_vars

(***************************************************************************)
(* Claims on flush_markers.                                                *)
(***************************************************************************)
\* the flush requests of the c-th call, in order
FlushesOf(c) == SelectSeq(flushes, LAMBDA f : f.call = c)

\* C16: outside dry-run a call of flush_markers issues the forced flush and
\* then the synced flush; a ConflictError of either is swallowed, so the
\* synced flush is still issued after the forced flush raised ConflictError
\* and the call returns normally; an error of another class ends the call
\* with that error and no further flush request.
C16_ConflictIsSwallowed ==
    ~dry_run =>
        \A c \in DOMAIN flResult :
            LET fs == FlushesOf(c)
            IN  /\ Len(fs) \in {1, 2}
                /\ fs[1].request = "flush"
                /\ fs[1].answer \in {"returned", "ConflictError"} <=> Len(fs) = 2
                /\ Len(fs) = 2 => fs[2].request = "flush_synced"
                /\ flResult[c] = IF fs[Len(fs)].answer \in {"returned", "ConflictError"}
                                 THEN "returned" ELSE fs[Len(fs)].answer

C16_Witness ==
    /\ ~dry_run
    /\ \E c \in DOMAIN flResult :
          /\ Len(FlushesOf(c)) = 2
          /\ FlushesOf(c)[1].answer = "ConflictError"
          /\ FlushesOf(c)[2].answer = "ConflictError"
          /\ flResult[c] = "returned"
    /\ \E c \in DOMAIN flResult : flResult[c] = "TransportError"

(***************************************************************************)
(* Nodes.execute, called directly.                                         *)
(***************************************************************************)
Commands == {"depool", "puppet-enabled"}

\* worker.commands: ['sudo ' + command] if self.sudo else [command]
worker_commands(command) == <<[sudo |-> sudo, command |-> command]>>

\* the value execute returns for the outcome `out` of the transport:
\* 0, [(None, '')] when no worker ran, else rc and the hosts' outputs
returns(out) ==
    CASE out = "skipped" -> [rc |-> 0, results |-> <<[host |-> "None", message |-> ""]>>]
      [] out = "rc0" -> [rc |-> 0, results |-> <<[host |-> "hosts", message |-> "output"]>>]
      [] out = "nonzero" -> [rc |-> 1, results |-> <<[host |-> "hosts", message |-> "output"]>>]

\* one call execute(command, safe)
execute_call ==
    /\ Len(exResult) < MaxExecCalls
    /\ \E command \in Commands, safe \in BOOLEAN :
          \E out \in execute(dry_run, safe) :
             /\ workers' = IF out = "skipped" THEN workers
                           ELSE Append(workers, [commands |-> worker_commands(command),
                                                 handler |-> "sync"])
             /\ exResult' = Append(exResult,
                                   [command |-> command, safe |-> safe,
                                    worker |-> IF out = "skipped" THEN 0 ELSE Len(workers) + 1,
                                    raised |-> IF out = "WorkerError" THEN out ELSE "none",
                                    value |-> IF out = "WorkerError" THEN <<>>
                                              ELSE returns(out)])
    /\ UNCHANGED <<sudo, rtVars>>
    /\ UNCHANGED otherThanExecute

InitExecute ==
    /\ NoSelect /\ NoWait /\ NoRepair /\ NoReboot /\ NoGreen /\ NoFlush
    /\ NoQueue /\ NoUpgrade
    /\ dry_run \in BOOLEAN
    /\ allocation = "all"
    /\ routing = <<>>
    /\ rtResult = "none"
    /\ sudo \in BOOLEAN
    /\ workers = <<>>
    /\ exResult = <<>>

NextExecute == execute_call

SpecExecute == InitExecute /\ [][NextExecute]_vars

(***************************************************************************)
(* Claims on Nodes.execute.                                                *)
(***************************************************************************)
\* C17: in dry-run mode a call of execute with safe=False creates and runs
\* no transport worker and returns exit code 0 with a single empty output,
\* for every command; with safe=True the command is run by a worker in
\* dry-run mode as in real mode.
C17_DryRunSkipsUnsafe ==
    \A k \in DOMAIN exResult :
        LET call == exResult[k]
        IN  /\ (dry_run /\ ~call.safe) =>
                  /\ call.worker = 0
                  /\ call.raised = "none"
                  /\ call.value.rc = 0
                  /\ Len(call.value.results) = 1
                  /\ call.value.results[1].message = ""
            /\ call.safe =>
                  /\ call.worker \in DOMAIN workers
                  /\ workers[call.worker].commands = worker_commands(call.command)
            /\ Len(workers) = Cardinality({j \in DOMAIN exResult : exResult[j].worker # 0})

C17_Witness ==
    /\ dry_run
    /\ \E k, l \in DOMAIN exResult :
          /\ ~exResult[k].safe
          /\ exResult[l].safe /\ exResult[l].raised = "none" /\ exResult[l].value.rc = 1

(***************************************************************************)
(* Claims on the classification of the nodes.                              *)
(***************************************************************************)
\* the nodes _to_rows put in the 'done' list of their row
ClassifiedDone ==
    LET rows == _to_rows(inventory, cutoff)
    IN  {k \in DOMAIN inventory : k \in Range(rows[inventory[k].attributes.row].done)}

\* C18: a node is classified done if and only if its process start time is
\* strictly after the cutoff, start times less than one second after the
\* cutoff included; otherwise it is classified not-done.
C18_DoneIffStartedAfterCutoff ==
    (Partitioned /\ JustReturned) =>
        \A k \in DOMAIN inventory :
            k \in ClassifiedDone <=> inventory[k].start_time_in_millis > cutoff

\* the same for start times a whole number of seconds after the cutoff, or
\* not after it
DoneIffStartedAfterCutoffInSeconds ==
    (Partitioned /\ JustReturned) =>
        \A k \in DOMAIN inventory :
            (inventory[k].start_time_in_millis % 1000 = 0 /\ cutoff % 1000 = 0) =>
                (k \in ClassifiedDone <=> inventory[k].start_time_in_millis > cutoff)

\* a batch is in the hands of the task, and it is made of the first
\* not-done nodes of one row in inventory order, at least one and at most n,
\* with `Done` telling which nodes are done
BatchWellFormed(Done(_, _)) ==
    (Partitioned /\ selPc = "task") =>
        /\ nodes.kind = "batch"
        /\ Len(nodes.hosts) >= 1
        /\ Len(nodes.hosts) <= parallelism
        /\ \E r \in RowNames :
              LET not_done == SelectSeq([k \in DOMAIN inventory |-> k],
                                        LAMBDA k : /\ inventory[k].attributes.row = r
                                                   /\ ~Done(inventory[k], cutoff))
              IN  nodes.hosts = SubSeq(not_done, 1,
                                       IF parallelism < Len(not_done)
                                       THEN parallelism ELSE Len(not_done))

\* C19: every batch returned by next_nodes is non-empty, has at most n hosts,
\* all of one row, which are the first not-done nodes of that row in
\* inventory order, and none of them is a node that has restarted after the
\* cutoff.
C19_BatchWellFormed == BatchWellFormed(_has_been_restarted_after_exact)

\* the same with done and not-done as _to_rows classifies the nodes
BatchWellFormedAsClassified == BatchWellFormed(_has_been_restarted_after)

(***************************************************************************)
(* wait_for under a clock that advances: an evaluation of the condition    *)
(* terminates and time.time() is later after it than before it; the loop   *)
(* is sequential code that keeps running.                                  *)
(***************************************************************************)
wait_for_evaluate_in_time == wait_for_evaluate /\ clock' > clock

NextWaitInTime == wait_for_evaluate_in_time \/ wait_for_sleep \/ wait_for_check

SpecWaitInTime == InitWait /\ [][NextWaitInTime]_vars /\ WF_vars(NextWaitInTime)

\* C20: every call of wait_for ends, by returning or by raising, for every
\* timeout and every retry period, zero included, and it evaluates the
\* condition a finite number of times: at most once per unit of the clock
\* within the timeout, and once more.
C20_WaitForTerminates ==
    /\ [](Len(outcomes) <= timeout + 1)
    /\ <>(wfPc \in {"returned", "raised"})

\* a wait with a zero retry period that evaluated the condition as often as
\* the timeout allows
C20_Witness ==
    /\ wfPc = "raised" /\ wfError = "TimeoutException"
    /\ retry_period = 0
    /\ timeout = MaxTimeout
    /\ Len(outcomes) = timeout + 1

(***************************************************************************)
(* ElasticsearchCluster.write_queue_status: the parser of the job report.  *)
(* A line of the report is the sequence of its tokens; a token is a word   *)
(* or a string of decimal digits.                                          *)
(***************************************************************************)
Word(w) == [word |-> w, digits |-> <<>>]

Number(ds) == [word |-> "", digits |-> ds]

\* '<name> <q> queued; <c> claimed (<a> active, <ab> abandoned); <d> delayed'
JobLine(name, q, c, a, ab, d) ==
    << Word(name), Number(q), Word("queued;"), Number(c), Word("claimed"), Word("("),
       Number(a), Word("active,"), Number(ab), Word("abandoned);"), Number(d),
       Word("delayed") >>

WriteJob == "cirrusSearchElasticaWrite:"

\* the line of the example, a line of zeros, a line with a leading zero
ExampleLine == JobLine(WriteJob, <<3>>, <<2>>, <<1>>, <<1>>, <<4, 2>>)
ZeroLine == JobLine(WriteJob, <<0>>, <<0>>, <<0>>, <<0>>, <<0>>)
PaddedLine == JobLine(WriteJob, <<0, 7>>, <<2>>, <<1>>, <<1>>, <<1, 0>>)

\* the lines a report is made of: lines of the write job, and lines the
\* pattern does not match: another job, an indented line, a line with text
\* after 'delayed', a truncated line, a count that is no number, an empty line
ReportLines ==
    { ExampleLine, ZeroLine, PaddedLine,
      JobLine("cirrusSearchLinksUpdate:", <<5>>, <<0>>, <<0>>, <<0>>, <<9>>),
      <<Word(" ")>> \o ZeroLine,
      ExampleLine \o <<Word("(total)")>>,
      SubSeq(ExampleLine, 1, 10),
      [ZeroLine EXCEPT ![2] = Word("many")],
      <<>> }

\* int(match.group(...)): the value of a string of decimal digits
RECURSIVE int(_)
int(ds) ==
    IF ds = <<>> THEN 0
    ELSE int(SubSeq(ds, 1, Len(ds) - 1)) * 10 + ds[Len(ds)]

\* \d+ matches the token
is_digits(token) == token.word = "" /\ token.digits # <<>>

\* the pattern matches the line from ^ to $
matches_line(line) ==
    /\ Len(line) = 12
    /\ line[1] = Word(WriteJob)
    /\ is_digits(line[2]) /\ line[3] = Word("queued;")
    /\ is_digits(line[4]) /\ line[5] = Word("claimed") /\ line[6] = Word("(")
    /\ is_digits(line[7]) /\ line[8] = Word("active,")
    /\ is_digits(line[9]) /\ line[10] = Word("abandoned);")
    /\ is_digits(line[11]) /\ line[12] = Word("delayed")

\* re.search(pattern, message, flags=re.M): the lines at which ^ can match
only_first_line(report) == IF report = <<>> THEN {} ELSE {1}

every_line(report) == DOMAIN report

\* the leftmost match, 0 when there is none
re_search(report) ==
    LET found == {k \in every_line(report) : matches_line(report[k])}
    IN  IF found = {} THEN 0
        ELSE CHOOSE k \in found : \A l \in found : k <= l

\* the dict of the five groups, or {} (<<>> here)
status_of(report) ==
    LET k == re_search(report)
    IN  IF k = 0 THEN <<>>
        ELSE [queued |-> int(report[k][2].digits),
              claimed |-> int(report[k][4].digits),
              active |-> int(report[k][7].digits),
              abandoned |-> int(report[k][9].digits),
              delayed |-> int(report[k][11].digits)]

\* write_queue_status(): the report is read and parsed
write_queue_status ==
    /\ wqPc = "call"
    /\ wqResult' = status_of(message)
    /\ wqPc' = "returned"
    /\ UNCHANGED message
    /\ UNCHANGED otherThanQueue

InitQueue ==
    /\ NoSelect /\ NoWait /\ NoRepair /\ NoRouting /\ NoReboot
    /\ NoGreen /\ NoFlush /\ NoExecute /\ NoUpgrade
    /\ \E n \in 0..MaxLines : message \in [1..n -> ReportLines]
    /\ wqPc = "call"
    /\ wqResult = <<>>

NextQueue == write_queue_status

SpecQueue == InitQueue /\ [][NextQueue]_vars

(***************************************************************************)
(* Claims on write_queue_status.                                           *)
(***************************************************************************)
\* the lines of the report that are a line of the write job
WriteLines == {k \in DOMAIN message : message[k] \in {ExampleLine, ZeroLine, PaddedLine}}

\* the counters such a line states
CountersOf(line) ==
    CASE line = ExampleLine ->
           [queued |-> 3, claimed |-> 2, active |-> 1, abandoned |-> 1, delayed |-> 42]
      [] line = ZeroLine ->
           [queued |-> 0, claimed |-> 0, active |-> 0, abandoned |-> 0, delayed |-> 0]
      [] line = PaddedLine ->
           [queued |-> 7, claimed |-> 2, active |-> 1, abandoned |-> 1, delayed |-> 10]

\* C21: write_queue_status returns the five counters of a line of the write
\* job found anywhere among the lines of the report (3, 2, 1, 1, 42 for the
\* example line), and returns the empty dict when no line of the report
\* matches.
C21_CountersOrEmpty ==
    wqPc = "returned" =>
        IF WriteLines = {}
        THEN wqResult = <<>>
        ELSE \E k \in WriteLines : wqResult = CountersOf(message[k])

\* the example line comes second, after a line the pattern does not match
C21_Witness ==
    /\ wqPc = "returned"
    /\ Len(message) = 2
    /\ message[1] \notin {ExampleLine, ZeroLine, PaddedLine}
    /\ message[2] = ExampleLine
    /\ wqResult.delayed = 42

(***************************************************************************)
(* upgrade.upgrade_nodes, step by step, on the variables of the batch      *)
(* task.  The statements after the call of cluster.stop_replication in the *)
(* try block (flush_markers to enable_puppet) and the statements after the *)
(* finally block are never reached, see upgrade_stop_replication and       *)
(* upgrade_start_replication.                                              *)
(***************************************************************************)
\* the attributes of an ElasticsearchCluster: what __init__ sets and what the
\* class defines
ElasticsearchCluster_attributes ==
    { "elasticsearch", "dc_name", "script_node", "cumin_config", "node_suffix",
      "icinga", "sudo", "dry_run", "logger",
      "frozen_writes", "_freeze_writes", "_thaw_writes", "write_queue_status",
      "stopped_replication", "_stop_replication", "_start_replication",
      "wait_for_green", "wait_for_no_relocations", "wait_for_write_queue_to_drain",
      "flush_markers", "_do_cluster_routing", "next_nodes", "_to_rows",
      "_ensure_row_initialized", "_has_been_restarted_after",
      "force_allocation_of_all_replicas", "unassigned_shards",
      "force_allocation_of_shard", "is_shard_assigned" }

\* cluster.<name>(...): the answers of the call, or AttributeError when the
\* object has no such attribute
call_on_cluster(name, answers) ==
    IF name \in ElasticsearchCluster_attributes THEN answers ELSE {"AttributeError"}

\* the statements of the try block
UpgradeBody ==
    { "stop_replication", "flush_markers", "depool", "stop_elasticsearch",
      "upgrade_elasticsearch", "reboot", "wait_for_elasticsearch", "pool",
      "enable_puppet" }

\* the statement order of upgrade_nodes
UpgradeOrder ==
    << "wait_for_green", "run_puppet_agent", "schedule_downtime", "disable_puppet",
       "stop_replication", "flush_markers", "depool", "stop_elasticsearch",
       "upgrade_elasticsearch", "reboot", "wait_for_elasticsearch", "pool",
       "enable_puppet", "start_replication", "wait_for_green_post",
       "wait_for_no_relocations" >>

\* where an error in flight at the end of a step goes: the finally block of
\* the try statement, or the caller
upgrade_handler(step) ==
    IF step \in UpgradeBody THEN "start_replication" ELSE "raised"

\* the end of a step of upgrade_nodes
UpgradeFinish(step, raised) ==
    LET err == IF raised # "none" THEN [kind |-> raised, at |-> step] ELSE pending
        target == IF err = NoError
                  THEN next_in(UpgradeOrder, step, wait_for_relocations)
                  ELSE upgrade_handler(step)
    IN  /\ trace' = Append(trace, step)
        /\ rbPc' = target
        /\ pending' = err
        /\ rbError' = IF target = "raised" THEN err ELSE rbError
        /\ first_error' = IF first_error = NoError THEN err ELSE first_error

\* timed(cluster.wait_for_green(timeout=90 minutes)): returns or times out
upgrade_wait_for_green ==
    /\ rbPc = "wait_for_green"
    /\ \E raised \in call_on_cluster("wait_for_green", {"none", "TimeoutException"}) :
          /\ gave' = Append(gave, raised)
          /\ UpgradeFinish("wait_for_green", raised)
    /\ UNCHANGED <<wait_for_relocations, writes_frozen, pooled, rtVars, puppet_enabled>>
    /\ UNCHANGED otherThanUpgrade

\* nodes.run_puppet_agent(): the exit code is dropped
upgrade_run_puppet_agent ==
    /\ rbPc = "run_puppet_agent"
    /\ \E rc \in execute(dry_run, FALSE) :
          /\ gave' = Append(gave, rc)
          /\ UpgradeFinish("run_puppet_agent", IF rc = "WorkerError" THEN rc ELSE "none")
    /\ UNCHANGED <<wait_for_relocations, writes_frozen, pooled, rtVars, puppet_enabled>>
    /\ UNCHANGED otherThanUpgrade

\* nodes.schedule_downtime: Icinga.downtime raises RemoteExecutionError on rc != 0
upgrade_schedule_downtime ==
    /\ rbPc = "schedule_downtime"
    /\ \E rc \in execute(dry_run, FALSE) :
          /\ gave' = Append(gave, rc)
          /\ UpgradeFinish("schedule_downtime",
                           CASE rc = "nonzero" -> "RemoteExecutionError"
                             [] rc = "WorkerError" -> rc
                             [] OTHER -> "none")
    /\ UNCHANGED <<wait_for_relocations, writes_frozen, pooled, rtVars, puppet_enabled>>
    /\ UNCHANGED otherThanUpgrade

\* is_puppet_enabled: the exit code of the safe command puppet-enabled
is_puppet_enabled(enabled) == {IF enabled THEN "rc0" ELSE "nonzero", "WorkerError"}

\* nodes.disable_puppet: the command, its exit code dropped; then, unless
\* dry_run, RemoteExecutionError when puppet is still enabled
upgrade_disable_puppet ==
    /\ rbPc = "disable_puppet"
    /\ \E rc \in execute(dry_run, FALSE) :
          /\ puppet_enabled' = IF rc = "rc0" THEN FALSE ELSE puppet_enabled
          /\ gave' = Append(gave, rc)
          /\ \E seen \in IF dry_run \/ rc = "WorkerError" THEN {"nonzero"}
                         ELSE is_puppet_enabled(puppet_enabled') :
                UpgradeFinish("disable_puppet",
                              CASE rc = "WorkerError" -> rc
                                [] seen = "WorkerError" -> seen
                                [] seen = "rc0" -> "RemoteExecutionError"
                                [] OTHER -> "none")
    /\ UNCHANGED <<wait_for_relocations, writes_frozen, pooled, rtVars>>
    /\ UNCHANGED otherThanUpgrade

\* try: timed(lambda: cluster.stop_replication(wait_for_relocations)): the
\* cluster has _stop_replication and stopped_replication, no stop_replication
upgrade_stop_replication ==
    /\ rbPc = "stop_replication"
    /\ \E answer \in call_on_cluster("stop_replication", {"returned", "FailedExecution"}) :
          /\ IF answer = "AttributeError"
             THEN UNCHANGED <<routing, allocation>>
             ELSE ClusterRouting("primaries", wait_for_relocations, answer)
          /\ gave' = Append(gave, answer)
          /\ UpgradeFinish("stop_replication", IF answer = "returned" THEN "none" ELSE answer)
    /\ UNCHANGED <<wait_for_relocations, writes_frozen, pooled, dry_run, rtResult,
                   puppet_enabled>>
    /\ UNCHANGED otherThanUpgrade

\* finally: cluster.start_replication(wait=False): the cluster has
\* _start_replication, no start_replication
upgrade_start_replication ==
    /\ rbPc = "start_replication"
    /\ \E answer \in call_on_cluster("start_replication", {"returned", "FailedExecution"}) :
          /\ IF answer = "AttributeError"
             THEN UNCHANGED <<routing, allocation>>
             ELSE ClusterRouting("all", FALSE, answer)
          /\ gave' = Append(gave, answer)
          /\ UpgradeFinish("start_replication", IF answer = "returned" THEN "none" ELSE answer)
    /\ UNCHANGED <<wait_for_relocations, writes_frozen, pooled, dry_run, rtResult,
                   puppet_enabled>>
    /\ UNCHANGED otherThanUpgrade

\* the allocation setting is the cluster's: 'all', or 'primaries' when an
\* earlier batch has left it so
InitUpgrade ==
    /\ NoSelect /\ NoWait /\ NoRepair /\ NoGreen /\ NoFlush /\ NoExecute /\ NoQueue
    /\ dry_run \in BOOLEAN
    /\ allocation \in {"all", "primaries"}
    /\ routing = <<>>
    /\ rtResult = "none"
    /\ rbPc = "wait_for_green"
    /\ wait_for_relocations \in BOOLEAN
    /\ writes_frozen = FALSE
    /\ pooled = TRUE
    /\ puppet_enabled = TRUE
    /\ trace = <<>>
    /\ gave = <<>>
    /\ pending = NoError
    /\ rbError = NoError
    /\ first_error = NoError

NextUpgrade ==
    \/ upgrade_wait_for_green
    \/ upgrade_run_puppet_agent
    \/ upgrade_schedule_downtime
    \/ upgrade_disable_puppet
    \/ upgrade_stop_replication
    \/ upgrade_start_replication

SpecUpgrade == InitUpgrade /\ [][NextUpgrade]_vars

(***************************************************************************)
(* Claims on upgrade_nodes.                                                *)
(***************************************************************************)
\* the last request made to the cluster sets the allocation to 'all'
ReleaseRequested ==
    routing # <<>> /\ routing[Len(routing)].value = "all"

\* C23: in upgrade_nodes the replication pause is a guaranteed-release scope:
\* replication is paused when the markers are flushed and the nodes are
\* depooled, and on every exit path after the pause step (normal completion
\* or an error of a later step) the allocation has been set back to 'all' on
\* the cluster when upgrade_nodes returns or the error reaches the caller.
C23_UpgradePauseIsReleased ==
    /\ rbPc \in UpgradeBody \ {"stop_replication"} =>
           (dry_run \/ allocation = "primaries")
    /\ (rbPc \in {"returned", "raised"} /\ "stop_replication" \in Range(trace)) =>
           /\ ReleaseRequested
           /\ allocation = "all"

\* what the code does: the call of the pause step raises AttributeError, no
\* later step of the try block runs, the release step raises AttributeError
\* too, and no request reaches the cluster
UpgradeStopsAtPause ==
    /\ routing = <<>>
    /\ rbPc \notin UpgradeBody \ {"stop_replication"}
    /\ rbPc # "returned"
    /\ (rbPc = "raised" /\ "stop_replication" \in Range(trace)) =>
           /\ rbError = [kind |-> "AttributeError", at |-> "start_replication"]
           /\ first_error = [kind |-> "AttributeError", at |-> "stop_replication"]
           /\ (~dry_run => ~puppet_enabled)

(***************************************************************************)
(* Claims on the release steps of reboot_nodes.                            *)
(***************************************************************************)
\* what the replication-resume step gave
StartReplicationGave ==
    IF FirstAt("start_replication") = 0 THEN "not run"
    ELSE gave[FirstAt("start_replication")]

\* the write thaw runs after a replication resume that raised, before the
\* caller sees any error
ThawRunsAfterFailedResume ==
    (rbPc \in {"returned", "raised"} /\ StartReplicationGave = "FailedExecution") =>
        FirstAt("start_replication") < FirstAt("thaw_writes")

\* C24: when the replication-resume step raises while the stopped_replication
\* scope is left, normally or during the unwinding of a task error, the write
\* thaw still executes before any error reaches the caller of reboot_nodes,
\* and when a task error was being unwound the error that reaches the caller
\* is the task's error.
C24_CleanupRunsAndErrorIsKept ==
    (rbPc \in {"returned", "raised"} /\ StartReplicationGave = "FailedExecution") =>
        /\ FirstAt("start_replication") < FirstAt("thaw_writes")
        /\ first_error.at \in ReplicationBody => rbError = first_error

(***************************************************************************)
(* Claims on reboot_nodes in dry-run mode.                                 *)
(***************************************************************************)
\* the steps of reboot_nodes that run a mutating host command
MutatingHostSteps ==
    {"freeze_writes", "schedule_downtime", "depool", "reboot", "pool", "thaw_writes"}

\* in dry-run mode no mutating host command is run, no allocation setting is
\* changed and nothing is flushed
NoHostOrSettingMutation ==
    /\ \A k \in DOMAIN trace :
          /\ trace[k] \in MutatingHostSteps => gave[k] = "skipped"
          /\ trace[k] = "flush_markers" => gave[k] = "skipped"
    /\ \A k \in DOMAIN routing : routing[k].action = "do_dry_run"
    /\ allocation = "all" /\ ~writes_frozen /\ pooled

\* no allocate_replica command is sent to the cluster
NoManualReroute ==
    \A k \in DOMAIN trace :
        trace[k] = "force_allocation_of_all_replicas" => gave[k] # "rerouted"

DryRunMutatesOnlyByReroute == dry_run => NoHostOrSettingMutation

\* C25: in dry-run mode a reboot batch issues no mutating call at all: no
\* mutating host command (freeze, thaw, downtime, depool, reboot, pool) and
\* no mutating call to the cluster (allocation setting, flush, manual shard
\* reroute), whatever the unassigned shards the cluster reports.
C25_DryRunIssuesNoMutatingCall ==
    dry_run => (NoHostOrSettingMutation /\ NoManualReroute)

(***************************************************************************)
(* Claims on the nesting of the scopes of reboot_nodes.                    *)
(***************************************************************************)
\* what the wait for elasticsearch gave
WaitForElasticsearchGave ==
    IF FirstAt("wait_for_elasticsearch") = 0 THEN "not run"
    ELSE gave[FirstAt("wait_for_elasticsearch")]

\* a step executed while replication is paused has raised: the nodes are left
\* as they are and the scopes are released
BodyStepRaised == first_error.at \in ReplicationBody

\* the nodes are repooled only after the wait for elasticsearch has succeeded
PoolOnlyAfterElasticsearchIsUp ==
    FirstAt("pool") # 0 =>
        /\ WaitForElasticsearchGave = "none"
        /\ FirstAt("wait_for_elasticsearch") < FirstAt("pool")

\* C26: in every reachable state of reboot_nodes the nodes of the batch are
\* depooled only while replication is paused (but for the nodes left depooled
\* by a failed step of the pause scope), replication is paused only while
\* writes are frozen, and the nodes are repooled only after the wait for
\* elasticsearch has succeeded.
C26_ScopesAreNested ==
    /\ (~pooled /\ ~BodyStepRaised) => allocation = "primaries"
    /\ allocation = "primaries" => writes_frozen
    /\ PoolOnlyAfterElasticsearchIsUp

\* a host command of the batch gave a non-zero exit code, which is dropped
SomeExitCodeDropped ==
    \E k \in DOMAIN trace : trace[k] \in HostCommandSteps /\ gave[k] = "nonzero"

\* what the code does: the nesting holds as long as every host command exits
\* with 0 and the replication resume does not fail
NestedWhenCommandsSucceed ==
    (~SomeExitCodeDropped /\ StartReplicationGave # "FailedExecution") =>
        C26_ScopesAreNested

====
